---- MODULE Spec2Model ----
(***************************************************************************)
(* Model of the QPU middleware: the hardware-status machine and the        *)
(* pattern-recognition pipeline of middleware_hardware.py, and the         *)
(* movement optimisation of middleware_simulation.py.                      *)
(*                                                                         *)
(* Three specifications:                                                   *)
(*   Spec        QPUHardwareInterface + process_vision_data, step by step  *)
(*   SpecBuild   create_recognition_circuit on bounded inputs              *)
(*   SpecDecode  _post_process_results and optimize_movement on bounded    *)
(*               inputs                                                    *)
(*                                                                         *)
(* Faults: calibrate and execute_circuit wrap their bodies in             *)
(* try/except Exception. An exception may be raised by any statement of a  *)
(* try block (the prints, simulator.run); which one is an input of the     *)
(* step. The statements of the except branches are taken not to raise.     *)
(* The status attribute is public: SetStatus is the caller assigning it,   *)
(* the only way the status becomes BUSY.                                   *)
(*                                                                         *)
(* Feature values (floats in the source) are modelled as integers, the     *)
(* exponent data/np.pi as the pair <<data, "pi">>, and the float           *)
(* np.mean(...) as the unreduced fraction <<sum, size>>.                   *)
(***************************************************************************)
EXTENDS Integers, Sequences, FiniteSets, TLC

VARIABLES
    status,     \* QPUHardwareInterface.status
    op,         \* the top-level call in progress, or the last one finished
    pc,         \* position inside that call ("idle": no call in progress)
    pre,        \* status when that call was entered
    args,       \* the call's arguments
    circuit,    \* local variable `circuit` of process_vision_data
    trace,      \* what the call has done so far, in order
    outcome,    \* how the last finished call ended (return value / exception)
    engine,     \* how the engine behaved in the latest execute_circuit
    robot_log   \* decisions received by MockRobotService.move_decision

vars == <<status, op, pc, pre, args, circuit, trace, outcome, engine, robot_log>>

----------------------------------------------------------------------------
(* Bounds *)

MaxQubits == 4       \* qubit counts 1..MaxQubits in SpecBuild
MaxLen == 5          \* feature vectors of length 0..MaxLen
MaxFeature == 2      \* feature values 0..MaxFeature
MaxTableQubits == 3  \* measured qubits per shot, 1..MaxTableQubits, in SpecDecode
MaxShots == 2        \* shots per measurement table
MaxCount == 2        \* occurrence count of one outcome in a histogram
MaxRunShots == 1     \* shots per table the engine answers with in Spec

----------------------------------------------------------------------------
(* QPUStatus *)

READY == "ready"
BUSY == "busy"
ERROR == "error"
CALIBRATING == "calibrating"
QPUStatus == {READY, BUSY, ERROR, CALIBRATING}

(* QPUConfig.num_qubits *)
num_qubits == 4

(* test_vision_data = [0.5, 0.3, 0.8, 0.1], in tenths *)
test_vision_data == <<5, 3, 8, 1>>

----------------------------------------------------------------------------
(* Values *)

Return(type, val) == [kind |-> "return", of |-> type, val |-> val]
Raise(exc, msg) == [kind |-> "raise", of |-> exc, val |-> msg]
NoOutcome == [kind |-> "none", of |-> "", val |-> <<>>]
NoEngine == [fault |-> "none", table |-> <<>>]

Ev(ev, st, val) == [ev |-> ev, st |-> st, val |-> val]

RECURSIVE SeqsUpTo(_, _)
SeqsUpTo(S, n) ==
    IF n = 0 THEN {<<>>}
    ELSE SeqsUpTo(S, n - 1) \cup [1..n -> S]

Bits == {0, 1}
(* tables of `shots` rows by n columns *)
Tables(n, shots) == [1..shots -> [1..n -> Bits]]

----------------------------------------------------------------------------
(* QuantumPatternRecognition.__init__: self.qubits *)
Qubits(n) == [i \in 1..n |-> <<i - 1, 0>>]

Gate(gate, qs, exponent, key) ==
    [gate |-> gate, qubits |-> qs, exponent |-> exponent, key |-> key]

(* data/np.pi *)
DivPi(data) == <<data, "pi">>

(* line 96: circuit.append([cirq.H(q) for q in self.qubits]) *)
superposition(qubits) ==
    [i \in 1..Len(qubits) |-> Gate("H", <<qubits[i]>>, <<>>, "")]

(* a plausible bug: no break, the index wraps onto the qubits *)
RECURSIVE encode_wrap(_, _, _, _)
encode_wrap(qubits, input_data, i, c) ==
    IF i >= Len(input_data) THEN c
    ELSE encode_wrap(qubits, input_data, i + 1,
            Append(c, Gate("YPow", <<qubits[(i % Len(qubits)) + 1]>>,
                           DivPi(input_data[i + 1]), "")))

(* lines 99-103: for i, data in enumerate(input_data); i is 0-based *)
RECURSIVE encode(_, _, _, _)
encode(qubits, input_data, i, c) ==
    IF i >= Len(input_data) THEN c
    ELSE IF i >= Len(qubits) THEN c
    ELSE encode(qubits, input_data, i + 1,
            Append(c, Gate("YPow", <<qubits[i + 1]>>,
                           DivPi(input_data[i + 1]), "")))

(* a plausible bug: range(1, len - 1), the pair (0, 1) is skipped *)
RECURSIVE entangle_skip(_, _, _)
entangle_skip(qubits, i, c) ==
    IF i + 1 >= Len(qubits) - 1 THEN c
    ELSE entangle_skip(qubits, i + 1,
            Append(c, Gate("CNOT", <<qubits[i + 2], qubits[i + 3]>>, <<>>, "")))

(* lines 106-107: for i in range(len(self.qubits) - 1) *)
RECURSIVE entangle(_, _, _)
entangle(qubits, i, c) ==
    IF i >= Len(qubits) - 1 THEN c
    ELSE entangle(qubits, i + 1,
            Append(c, Gate("CNOT", <<qubits[i + 1], qubits[i + 2]>>, <<>>, "")))

\* line 110: the terminal measurement of all qubits under key 'result'
measure(qubits) == Gate("measure", qubits, <<>>, "result")

create_recognition_circuit(qubits, input_data) ==
    LET c1 == superposition(qubits)
        c2 == encode(qubits, input_data, 0, c1)
        c3 == entangle(qubits, 0, c2)
    IN  Append(c3, measure(qubits))

----------------------------------------------------------------------------
(* QuantumPatternRecognition._post_process_results *)

RECURSIVE SumSeq(_, _)
SumSeq(row, i) == IF i > Len(row) THEN 0 ELSE row[i] + SumSeq(row, i + 1)

RECURSIVE SumRows(_, _)
SumRows(m, s) == IF s > Len(m) THEN 0 ELSE SumSeq(m[s], 1) + SumRows(m, s + 1)

RECURSIVE SizeRows(_, _)
SizeRows(m, s) == IF s > Len(m) THEN 0 ELSE Len(m[s]) + SizeRows(m, s + 1)

(* a plausible bug: the mean of column 0 only, np.mean(measurements[:, 0]) *)
RECURSIVE SumCol0(_, _)
SumCol0(m, s) == IF s > Len(m) THEN 0 ELSE m[s][1] + SumCol0(m, s + 1)
np_mean_col0(m) == <<SumCol0(m, 1), Len(m)>>

(* np.mean over the whole 2-d array: <<sum, size>>; <<0, 0>> is nan *)
np_mean(m) == <<SumRows(m, 1), SizeRows(m, 1)>>

(* a plausible bug: an empty table is answered with a default decision *)
post_process_results_default(raw_results) ==
    IF "result" \notin DOMAIN raw_results.measurements
    THEN Raise("KeyError", <<"result">>)
    ELSE LET measurements == raw_results.measurements["result"]
             confidence == np_mean(measurements)
         IN  IF Len(measurements) = 0
             THEN Return("dict", [pattern_identified |-> FALSE,
                                  confidence_score |-> confidence])
             ELSE Return("dict", [pattern_identified |-> (measurements[1][1] # 0),
                                  confidence_score |-> confidence])

(* lines 130-141: raw_results['measurements']['result'] raises KeyError when *)
(* the label is missing; measurements[0][0] raises IndexError on zero shots  *)
post_process_results(raw_results) ==
    IF "result" \notin DOMAIN raw_results.measurements
    THEN Raise("KeyError", <<"result">>)
    ELSE LET measurements == raw_results.measurements["result"]
             confidence == np_mean(measurements)
         IN  IF Len(measurements) = 0
             THEN Raise("IndexError", <<"index 0 is out of bounds">>)
             ELSE Return("dict", [pattern_identified |-> (measurements[1][1] # 0),
                                  confidence_score |-> confidence])

----------------------------------------------------------------------------
(* QPUHardwareInterface *)

(* the measurement key of the circuit's terminal measurement *)
MeasureKeys(c) == {c[i].key : i \in {j \in 1..Len(c) : c[j].gate = "measure"}}

(* cirq.Simulator().run(circuit, repetitions): result.measurements maps each *)
(* measurement key of the circuit to the table the engine produced           *)
simulator_run(c, table) == [k \in MeasureKeys(c) |-> table]

(* where an exception may be raised inside the try block of execute_circuit *)
ExecFaults == {"none", "print_before", "run", "print_after"}

(* a plausible bug: the readiness check only rejects ERROR *)
execute_circuit_ungated(st, c, fault, table) ==
    IF st = ERROR
    THEN [status |-> st,
          out |-> Raise("RuntimeError", <<"QPU not ready. Current status: ", st>>),
          events |-> <<Ev("execute", st, "")>>]
    ELSE IF fault = "print_before"
    THEN [status |-> ERROR, out |-> Return("None", <<>>),
          events |-> <<Ev("execute", st, ""), Ev("status", ERROR, "")>>]
    ELSE IF fault \in {"run", "print_after"}
    THEN [status |-> ERROR, out |-> Return("None", <<>>),
          events |-> <<Ev("execute", st, ""), Ev("run", st, ""),
                       Ev("status", ERROR, "")>>]
    ELSE [status |-> st,
          out |-> Return("dict", [measurements |-> simulator_run(c, table)]),
          events |-> <<Ev("execute", st, ""), Ev("run", st, "")>>]

(* a plausible bug: the except branch re-raises and leaves the status alone *)
execute_circuit_reraise(st, c, fault, table) ==
    IF st # READY
    THEN [status |-> st,
          out |-> Raise("RuntimeError", <<"QPU not ready. Current status: ", st>>),
          events |-> <<Ev("execute", st, "")>>]
    ELSE IF fault = "print_before"
    THEN [status |-> st, out |-> Raise("Exception", <<"fault">>),
          events |-> <<Ev("execute", st, "")>>]
    ELSE IF fault \in {"run", "print_after"}
    THEN [status |-> st, out |-> Raise("Exception", <<"fault">>),
          events |-> <<Ev("execute", st, ""), Ev("run", st, "")>>]
    ELSE [status |-> st,
          out |-> Return("dict", [measurements |-> simulator_run(c, table)]),
          events |-> <<Ev("execute", st, ""), Ev("run", st, "")>>]

(* lines 64-81: the new status, the return value or exception, and what was *)
(* done, given the status at entry and the engine's behaviour               *)
execute_circuit(st, c, fault, table) ==
    IF st # READY
    THEN [status |-> st,
          out |-> Raise("RuntimeError", <<"QPU not ready. Current status: ", st>>),
          events |-> <<Ev("execute", st, "")>>]
    ELSE IF fault = "print_before"
    THEN [status |-> ERROR, out |-> Return("None", <<>>),
          events |-> <<Ev("execute", st, ""), Ev("status", ERROR, "")>>]
    ELSE IF fault \in {"run", "print_after"}
    THEN [status |-> ERROR, out |-> Return("None", <<>>),
          events |-> <<Ev("execute", st, ""), Ev("run", st, ""),
                       Ev("status", ERROR, "")>>]
    ELSE [status |-> st,
          out |-> Return("dict", [measurements |-> simulator_run(c, table)]),
          events |-> <<Ev("execute", st, ""), Ev("run", st, "")>>]

(* where an exception may be raised inside the try block of calibrate *)
CalEnterFaults == {"none", "print_start"}
CalFinishFaults == {"none", "print_test_mode", "print_done"}

(* a plausible bug: CALIBRATING is never entered *)
calibrate_enter_silent(st, fault) ==
    IF fault = "print_start"
    THEN [status |-> ERROR, returned |-> TRUE, ret |-> FALSE,
          events |-> <<Ev("calibrate", st, ""), Ev("status", ERROR, "")>>]
    ELSE [status |-> st, returned |-> FALSE, ret |-> FALSE,
          events |-> <<Ev("calibrate", st, "")>>]

(* lines 49-51 (and 59-62 on a fault at line 50) *)
calibrate_enter(st, fault) ==
    IF fault = "print_start"
    THEN [status |-> ERROR, returned |-> TRUE, ret |-> FALSE,
          events |-> <<Ev("calibrate", st, ""), Ev("status", ERROR, "")>>]
    ELSE [status |-> CALIBRATING, returned |-> FALSE, ret |-> FALSE,
          events |-> <<Ev("calibrate", st, ""), Ev("status", CALIBRATING, "")>>]

(* a plausible bug: the except branch returns False without setting ERROR *)
calibrate_finish_stuck(st, fault) ==
    IF fault = "print_test_mode"
    THEN [status |-> st, ret |-> FALSE, events |-> <<>>]
    ELSE IF fault = "print_done"
    THEN [status |-> READY, ret |-> FALSE, events |-> <<Ev("status", READY, "")>>]
    ELSE [status |-> READY, ret |-> TRUE, events |-> <<Ev("status", READY, "")>>]

(* lines 53-58 (and 59-62 on a fault at line 54 or 57) *)
calibrate_finish(st, fault) ==
    IF fault = "print_test_mode"
    THEN [status |-> ERROR, ret |-> FALSE, events |-> <<Ev("status", ERROR, "")>>]
    ELSE IF fault = "print_done"
    THEN [status |-> ERROR, ret |-> FALSE,
          events |-> <<Ev("status", READY, ""), Ev("status", ERROR, "")>>]
    ELSE [status |-> READY, ret |-> TRUE, events |-> <<Ev("status", READY, "")>>]

----------------------------------------------------------------------------
(* The hardware interface and the pattern-recognition pipeline, step by step *)

PyBool(b) == IF b THEN "True" ELSE "False"

(* feature vectors passed to process_vision_data *)
VisionInputs == {test_vision_data, <<>>}

(* what the engine may answer: 1..MaxRunShots shots of num_qubits bits, a *)
(* shot being given by the bit of qubit 0 and one bit for the other qubits *)
RunRows == {[q \in 1..num_qubits |-> IF q = 1 THEN b0 ELSE b] : b0 \in Bits, b \in Bits}
RunTables == UNION {[1..shots -> RunRows] : shots \in 1..MaxRunShots}

Init ==
    /\ status = READY
    /\ op = "init"
    /\ pc = "idle"
    /\ pre = READY
    /\ args = <<>>
    /\ circuit = <<>>
    /\ trace = <<>>
    /\ outcome = NoOutcome
    /\ engine = NoEngine
    /\ robot_log = <<>>

(* the caller assigns the public attribute qpu.status *)
SetStatus ==
    /\ pc = "idle"
    /\ \E s \in QPUStatus \ {status} :
        /\ status' = s
        /\ args' = <<s>>
    /\ op' = "set_status"
    /\ pre' = status
    /\ trace' = <<>>
    /\ outcome' = NoOutcome
    /\ UNCHANGED <<pc, circuit, engine, robot_log>>

(* lines 42-45 *)
check_status ==
    /\ pc = "idle"
    /\ op' = "check_status"
    /\ pre' = status
    /\ args' = <<>>
    /\ trace' = <<Ev("check_status", status, "")>>
    /\ outcome' = Return("QPUStatus", status)
    /\ UNCHANGED <<status, pc, circuit, engine, robot_log>>

(* a direct call of calibrate() *)
calibrate_call ==
    /\ pc = "idle"
    /\ op' = "calibrate"
    /\ pc' = "calibrate"
    /\ pre' = status
    /\ args' = <<>>
    /\ trace' = <<>>
    /\ outcome' = NoOutcome
    /\ UNCHANGED <<status, circuit, engine, robot_log>>

(* calibrate() returns ret, to the caller or into process_vision_data, *)
(* which discards the value (line 118)                                 *)
CalibrateReturns(st, ret, events) ==
    /\ status' = st
    /\ trace' = trace \o events \o <<Ev("calibrate.return", st, PyBool(ret))>>
    /\ IF op = "calibrate"
       THEN /\ pc' = "idle"
            /\ outcome' = Return("bool", ret)
       ELSE /\ pc' = "build"
            /\ outcome' = outcome

calibrate_begin ==
    /\ pc = "calibrate"
    /\ \E fault \in CalEnterFaults :
        LET r == calibrate_enter(status, fault)
        IN  IF r.returned
            THEN CalibrateReturns(r.status, r.ret, r.events)
            ELSE /\ status' = r.status
                 /\ trace' = trace \o r.events
                 /\ pc' = "calibrating"
                 /\ outcome' = outcome
    /\ UNCHANGED <<op, pre, args, circuit, engine, robot_log>>

calibrate_end ==
    /\ pc = "calibrating"
    /\ \E fault \in CalFinishFaults :
        LET r == calibrate_finish(status, fault)
        IN  CalibrateReturns(r.status, r.ret, r.events)
    /\ UNCHANGED <<op, pre, args, circuit, engine, robot_log>>

(* a direct call of execute_circuit(circuit) *)
execute_circuit_call ==
    /\ pc = "idle"
    /\ \E v \in VisionInputs, fault \in ExecFaults, table \in RunTables :
        LET c == create_recognition_circuit(Qubits(num_qubits), v)
            r == execute_circuit(status, c, fault, table)
        IN  /\ status' = r.status
            /\ args' = <<c>>
            /\ trace' = r.events
            /\ outcome' = r.out
            /\ engine' = [fault |-> fault, table |-> table]
    /\ op' = "execute_circuit"
    /\ pre' = status
    /\ UNCHANGED <<pc, circuit, robot_log>>

(* lines 115-118: entry of process_vision_data and the status check *)
process_vision_data_call ==
    /\ pc = "idle"
    /\ \E v \in VisionInputs : args' = <<v>>
    /\ op' = "process_vision_data"
    /\ pre' = status
    /\ trace' = <<Ev("check_status", status, "")>>
    /\ pc' = IF status # READY THEN "calibrate" ELSE "build"
    /\ circuit' = <<>>
    /\ outcome' = NoOutcome
    /\ UNCHANGED <<status, engine, robot_log>>

(* line 120 *)
process_vision_data_build ==
    /\ pc = "build"
    /\ circuit' = create_recognition_circuit(Qubits(num_qubits), args[1])
    /\ trace' = Append(trace, Ev("build", status, ""))
    /\ pc' = "execute"
    /\ UNCHANGED <<status, op, pre, args, outcome, engine, robot_log>>

(* lines 121-126: an exception of execute_circuit propagates, None becomes *)
(* RuntimeError("Pattern recognition failed"), a result is decoded         *)
process_vision_data_execute ==
    /\ pc = "execute"
    /\ \E fault \in ExecFaults, table \in RunTables :
        LET r == execute_circuit(status, circuit, fault, table)
        IN  /\ status' = r.status
            /\ trace' = trace \o r.events
            /\ outcome' = IF r.out.kind = "raise" THEN r.out
                          ELSE IF r.out.of = "None"
                          THEN Raise("RuntimeError", <<"Pattern recognition failed">>)
                          ELSE post_process_results(r.out.val)
            /\ engine' = [fault |-> fault, table |-> table]
    /\ pc' = "idle"
    /\ UNCHANGED <<op, pre, args, circuit, robot_log>>

Next ==
    \/ SetStatus
    \/ check_status
    \/ calibrate_call
    \/ calibrate_begin
    \/ calibrate_end
    \/ execute_circuit_call
    \/ process_vision_data_call
    \/ process_vision_data_build
    \/ process_vision_data_execute

Spec == Init /\ [][Next]_vars

----------------------------------------------------------------------------
(* create_recognition_circuit on every feature vector and qubit count *)

FeatureVectors == SeqsUpTo(0..MaxFeature, MaxLen)

InitBuild ==
    /\ status = READY
    /\ op = "create_recognition_circuit"
    /\ pc = "call"
    /\ pre = READY
    /\ args \in {<<n, v>> : n \in 1..MaxQubits, v \in FeatureVectors}
    /\ circuit = <<>>
    /\ trace = <<>>
    /\ outcome = NoOutcome
    /\ engine = NoEngine
    /\ robot_log = <<>>

create_recognition_circuit_call ==
    /\ pc = "call"
    /\ op = "create_recognition_circuit"
    /\ outcome' = Return("Circuit",
                         create_recognition_circuit(Qubits(args[1]), args[2]))
    /\ pc' = "idle"
    /\ UNCHANGED <<status, op, pre, args, circuit, trace, engine, robot_log>>

NextBuild == create_recognition_circuit_call

SpecBuild == InitBuild /\ [][NextBuild]_vars

----------------------------------------------------------------------------
(* middleware_simulation.py *)

(* the simulated circuit has two qubits: result.histogram folds a shot *)
(* into an integer 0 .. 2^SimQubits - 1                                *)
SimQubits == 2
SimOutcomes == 0..(2^SimQubits - 1)

(* a plausible bug: >= keeps the last maximum *)
RECURSIVE py_max_last(_, _, _)
py_max_last(items, i, best) ==
    IF i > Len(items) THEN items[best][1]
    ELSE py_max_last(items, i + 1,
                     IF items[i][2] >= items[best][2] THEN i ELSE best)

(* max(simulation_results, key=simulation_results.get): the keys are      *)
(* scanned in the Counter's order and a later key replaces the best one   *)
(* only when its count is strictly greater. items is the Counter as the   *)
(* sequence of its <<key, count>> items, best the index of the best so far *)
RECURSIVE py_max(_, _, _)
py_max(items, i, best) ==
    IF i > Len(items) THEN items[best][1]
    ELSE py_max(items, i + 1,
                IF items[i][2] > items[best][2] THEN i ELSE best)

(* lines 66-75: the decisions handed to robot.move_decision; the function *)
(* returns None on both branches                                          *)
optimize_movement(simulation_results) ==
    IF Len(simulation_results) > 0
    THEN [robot |-> <<py_max(simulation_results, 2, 1)>>,
          out |-> Return("None", <<>>)]
    ELSE [robot |-> <<>>, out |-> Return("None", <<>>)]

----------------------------------------------------------------------------
(* The two decoders on every measurement table and histogram *)

DecodeTables ==
    UNION {Tables(n, shots) : n \in 1..MaxTableQubits, shots \in 0..MaxShots}

RawResults ==
    {[measurements |-> [k \in ks |-> t]] :
        ks \in {{"result"}, {"other"}}, t \in DecodeTables}

(* a Counter as the sequence of its items: distinct keys, counts >= 1 *)
Histograms ==
    {h \in SeqsUpTo(SimOutcomes \X (1..MaxCount), Cardinality(SimOutcomes)) :
        \A i \in 1..Len(h), j \in 1..Len(h) : h[i][1] = h[j][1] => i = j}

InitDecode ==
    /\ status = READY
    /\ pc = "call"
    /\ pre = READY
    /\ \/ /\ op = "post_process_results"
          /\ args \in {<<r>> : r \in RawResults}
       \/ /\ op = "optimize_movement"
          /\ args \in {<<h>> : h \in Histograms}
    /\ circuit = <<>>
    /\ trace = <<>>
    /\ outcome = NoOutcome
    /\ engine = NoEngine
    /\ robot_log = <<>>

post_process_results_call ==
    /\ pc = "call"
    /\ op = "post_process_results"
    /\ outcome' = post_process_results(args[1])
    /\ pc' = "idle"
    /\ UNCHANGED <<status, op, pre, args, circuit, trace, engine, robot_log>>

optimize_movement_call ==
    /\ pc = "call"
    /\ op = "optimize_movement"
    /\ LET r == optimize_movement(args[1])
       IN  /\ robot_log' = robot_log \o r.robot
           /\ outcome' = r.out
    /\ pc' = "idle"
    /\ UNCHANGED <<status, op, pre, args, circuit, trace, engine>>

NextDecode ==
    \/ post_process_results_call
    \/ optimize_movement_call

SpecDecode == InitDecode /\ [][NextDecode]_vars

----------------------------------------------------------------------------
(* Properties of the hardware interface and the orchestration (Spec) *)

Idle(call) == op = call /\ pc = "idle"
Events(ev) == {i \in 1..Len(trace) : trace[i].ev = ev}
NotReadyError(st) == Raise("RuntimeError", <<"QPU not ready. Current status: ", st>>)
CalibrationFailed == \E i \in Events("calibrate.return") : trace[i].val = "False"
CalibrationSucceeded == \E i \in Events("calibrate.return") : trace[i].val = "True"

\* C1: the engine is run only while the status is Ready; execute_circuit
\* entered with a status s other than Ready raises the not-ready error naming
\* s, runs nothing and leaves the status equal to s.
C1_ReadinessGate ==
    /\ \A i \in Events("run") : trace[i].st = READY
    /\ \A i \in Events("execute") :
        trace[i].st # READY =>
            /\ i = Len(trace)
            /\ status = trace[i].st
            /\ outcome = NotReadyError(trace[i].st)
    /\ Idle("execute_circuit") /\ pre # READY =>
            /\ outcome = NotReadyError(pre)
            /\ status = pre
            /\ Events("run") = {}

C1_Witness ==
    /\ Idle("execute_circuit")
    /\ pre = BUSY
    /\ status = BUSY
    /\ outcome = NotReadyError(BUSY)

\* C2: whenever calibrate() has just returned, from whichever status it was
\* entered, the status is Ready if it returned True and Error if it returned
\* False, and so never Calibrating.
C2_CalibrationConvergence ==
    /\ Len(trace) > 0 /\ trace[Len(trace)].ev = "calibrate.return" =>
            /\ status = IF trace[Len(trace)].val = "True" THEN READY ELSE ERROR
            /\ status # CALIBRATING
    /\ Idle("calibrate") =>
            /\ outcome.kind = "return"
            /\ outcome.of = "bool"
            /\ status = IF outcome.val THEN READY ELSE ERROR

C2_Witness ==
    /\ Idle("calibrate")
    /\ pre = BUSY
    /\ outcome = Return("bool", FALSE)
    /\ status = ERROR
    /\ \E i \in Events("status") : trace[i].st = CALIBRATING

\* C3: execute_circuit entered while Ready returns None and sets the status to
\* Error when the engine faults, and returns the engine's measurement table
\* and keeps the status Ready when it does not; entered while not Ready it
\* raises instead and changes nothing.
C3_ExecutionFaultChannel ==
    Idle("execute_circuit") =>
        IF pre = READY
        THEN IF engine.fault # "none"
             THEN /\ outcome = Return("None", <<>>)
                  /\ status = ERROR
             ELSE /\ outcome.kind = "return"
                  /\ outcome.of = "dict"
                  /\ outcome.val.measurements["result"] = engine.table
                  /\ status = READY
        ELSE /\ outcome.kind = "raise"
             /\ status = pre

C3_Witness ==
    /\ Idle("execute_circuit")
    /\ pre = READY
    /\ engine.fault = "run"
    /\ outcome = Return("None", <<>>)
    /\ status = ERROR

\* C4: when process_vision_data is entered with a status other than Ready and
\* its calibration fails, it aborts with the hardware-unavailable error: it
\* builds no circuit, does not call execute_circuit, and reports the failure
\* through no other error.
C4_AbortsOnCalibrationFailure ==
    Idle("process_vision_data") /\ pre # READY /\ CalibrationFailed =>
        /\ outcome.kind = "raise"
        /\ outcome.of = "HardwareUnavailableError"
        /\ Events("build") = {}
        /\ Events("execute") = {}

\* C10: a process_vision_data call calls calibrate and execute_circuit at most
\* once each; entered with a status other than Ready it calls calibrate, and
\* when that calibration succeeds the status goes to Calibrating, then to
\* Ready, before execute_circuit is entered (with status Ready); a call that
\* returns a decision leaves the status Ready.
C10_RecoveryAcrossCalls ==
    op = "process_vision_data" =>
        /\ Cardinality(Events("calibrate")) <= 1
        /\ Cardinality(Events("execute")) <= 1
        /\ Cardinality(Events("run")) <= 1
        /\ pre # READY /\ pc # "calibrate" => Events("calibrate") # {}
        /\ pre # READY /\ CalibrationSucceeded =>
            \E a \in Events("status"), b \in Events("status") :
                /\ a < b
                /\ trace[a].st = CALIBRATING
                /\ trace[b].st = READY
                /\ \A k \in Events("execute") : b < k /\ trace[k].st = READY
        /\ pc = "idle" /\ outcome.kind = "return" =>
            /\ outcome.of = "dict"
            /\ status = READY

C10_Witness ==
    /\ Idle("process_vision_data")
    /\ pre = ERROR
    /\ CalibrationSucceeded
    /\ outcome.kind = "return"
    /\ status = READY

----------------------------------------------------------------------------
(* Properties of the circuit builder (SpecBuild) *)

Built == op = "create_recognition_circuit" /\ pc = "idle"
GatesOf(c, gate) == {i \in 1..Len(c) : c[i].gate = gate}
Min(a, b) == IF a < b THEN a ELSE b

\* C6: a feature vector longer than the qubit count gives the circuit of the
\* vector truncated to the qubit count: one rotation per qubit, the i-th on
\* qubit i with feature i, none wrapped onto another qubit, and no error.
C6_FeatureTruncation ==
    Built /\ Len(args[2]) > args[1] =>
        LET n == args[1]
            v == args[2]
            c == outcome.val
        IN  /\ outcome.kind = "return"
            /\ c = create_recognition_circuit(Qubits(n), SubSeq(v, 1, n))
            /\ Cardinality(GatesOf(c, "YPow")) = n
            /\ \A i \in 1..n :
                c[n + i] = Gate("YPow", <<(<<i - 1, 0>>)>>, <<v[i], "pi">>, "")

C6_Witness ==
    /\ Built
    /\ args[1] = 2
    /\ Len(args[2]) = MaxLen
    /\ Cardinality(GatesOf(outcome.val, "YPow")) = 2

\* C7: the circuit for n qubits and vector v is, in order, n superposition
\* gates on qubits 0..n-1, min(len(v), n) rotations where the i-th rotates
\* qubit i by v[i]/pi, n-1 entangling gates on (i, i+1) for i = 0..n-2, and
\* one measurement of all n qubits under the label 'result'.
C7_CircuitStructure ==
    Built =>
        LET n == args[1]
            v == args[2]
            k == Min(Len(v), n)
            c == outcome.val
        IN  /\ Len(c) = n + k + (n - 1) + 1
            /\ \A i \in 1..n :
                c[i] = Gate("H", <<(<<i - 1, 0>>)>>, <<>>, "")
            /\ \A i \in 1..k :
                c[n + i] = Gate("YPow", <<(<<i - 1, 0>>)>>, <<v[i], "pi">>, "")
            /\ \A i \in 1..(n - 1) :
                c[n + k + i] = Gate("CNOT", <<(<<i - 1, 0>>), (<<i, 0>>)>>, <<>>, "")
            /\ c[Len(c)] = Gate("measure", [i \in 1..n |-> <<i - 1, 0>>], <<>>, "result")
            /\ \A i \in 1..Len(c) : \A j \in 1..Len(c[i].qubits) :
                /\ c[i].qubits[j][1] >= 0
                /\ c[i].qubits[j][1] < n

C7_Witness ==
    /\ Built
    /\ args[1] = 4
    /\ Len(args[2]) = 4
    /\ Cardinality(GatesOf(outcome.val, "H")) = 4
    /\ Cardinality(GatesOf(outcome.val, "YPow")) = 4
    /\ Cardinality(GatesOf(outcome.val, "CNOT")) = 3
    /\ Cardinality(GatesOf(outcome.val, "measure")) = 1

----------------------------------------------------------------------------
(* Properties of the decoders (SpecDecode) *)

Decoded == op = "post_process_results" /\ pc = "idle"
Optimized == op = "optimize_movement" /\ pc = "idle"
HasLabel == "result" \in DOMAIN args[1].measurements
Table == args[1].measurements["result"]
Ones(m) == UNION {{<<s, q>> : q \in {x \in 1..Len(m[s]) : m[s][x] = 1}} :
                    s \in 1..Len(m)}
Qubit0Ones(m) == {s \in 1..Len(m) : m[s][1] = 1}

\* C5 as stated: with at least one shot, confidence_score is the number of
\* shots whose qubit-0 bit is 1 divided by the number of shots.
C5_ConfidenceIsQubit0Mean ==
    Decoded /\ HasLabel /\ Len(Table) >= 1 =>
        /\ outcome.kind = "return"
        /\ outcome.val.confidence_score[2] > 0
        /\ outcome.val.confidence_score[1] * Len(Table)
            = Cardinality(Qubit0Ones(Table)) * outcome.val.confidence_score[2]

\* C5 as amended: with at least one shot, confidence_score is the number of 1
\* bits over all qubits and all shots divided by shots * qubit_count, and so
\* lies in [0, 1].
C5_ConfidenceIsMeanOfAllBits ==
    Decoded /\ HasLabel /\ Len(Table) >= 1 =>
        LET conf == outcome.val.confidence_score
            size == Len(Table) * Len(Table[1])
        IN  /\ outcome.kind = "return"
            /\ conf[2] > 0
            /\ conf[1] * size = Cardinality(Ones(Table)) * conf[2]
            /\ 0 <= conf[1]
            /\ conf[1] <= conf[2]

C5_Witness ==
    /\ Decoded
    /\ HasLabel
    /\ Len(Table) = 2
    /\ Len(Table[1]) = 2
    /\ Cardinality(Qubit0Ones(Table)) = 2
    /\ outcome.kind = "return"
    /\ outcome.val.confidence_score = <<3, 4>>

\* C8: on a non-empty histogram exactly one decision reaches the robot: a key
\* of the histogram whose count is >= every count, and the first such key in
\* the histogram's order.
C8_HistogramSelection ==
    Optimized /\ Len(args[1]) > 0 =>
        /\ Len(robot_log) = 1
        /\ \E k \in 1..Len(args[1]) :
            /\ args[1][k][1] = robot_log[1]
            /\ \A j \in 1..Len(args[1]) : args[1][j][2] <= args[1][k][2]
            /\ \A j \in 1..(k - 1) : args[1][j][2] < args[1][k][2]

C8_Witness ==
    /\ Optimized
    /\ Len(args[1]) = 3
    /\ args[1][1][2] < args[1][2][2]
    /\ args[1][2][2] = args[1][3][2]
    /\ robot_log = <<args[1][2][1]>>

\* C9 as stated: the pattern decoder on a table with zero shots or without
\* the label, and the optimisation on an empty histogram, each fail with an
\* exception, with no decision and no call of the robot.
EmptyInput ==
    \/ Decoded /\ ~HasLabel
    \/ Decoded /\ HasLabel /\ Len(Table) = 0
    \/ Optimized /\ Len(args[1]) = 0

C9_EmptyInputFails ==
    EmptyInput =>
        /\ outcome.kind = "raise"
        /\ robot_log = <<>>

\* C9 as amended: the pattern decoder raises (KeyError without the label,
\* IndexError on zero shots) and returns no decision; the optimisation on an
\* empty histogram hands nothing to the robot and returns None, normally.
C9_EmptyInputHandling ==
    /\ Decoded /\ ~HasLabel => outcome = Raise("KeyError", <<"result">>)
    /\ Decoded /\ HasLabel /\ Len(Table) = 0 =>
            /\ outcome.kind = "raise"
            /\ outcome.of = "IndexError"
    /\ Decoded => robot_log = <<>>
    /\ Optimized /\ Len(args[1]) = 0 =>
            /\ robot_log = <<>>
            /\ outcome = Return("None", <<>>)

C9_Witness ==
    /\ Optimized
    /\ Len(args[1]) = 0
    /\ robot_log = <<>>
    /\ outcome.kind = "return"

====
